---- MODULE Spec2Model ----
(***************************************************************************)
(* ShadowLog backend: the AI result cache (services/ai.ts), the expired-   *)
(* row cleanup (services/database.ts) and the background enrichment of     *)
(* diary entries (routes/entries.ts), as one state machine.                *)
(*                                                                         *)
(* Time is counted in units of half an hour (1800 s), so the default       *)
(* AI_CACHE_TTL of 3600 s and the hard-coded 3600 s of the Redis           *)
(* repopulation are both 2.                                                *)
(***************************************************************************)
EXTENDS Integers, Sequences, FiniteSets, TLC

\* ------------------------------------------------------------------ bounds
MaxTime == 3
\* the longest content whose key is derived in SpecKey
MaxContentLen == 2

\* ---------------------------------------------------- program constants
\* parseInt(getEnvVar('AI_CACHE_TTL', '3600')), in units of 1800 s
TTL == 2
\* this.redis.setex(key, 3600, ...) in getCachedResult, in units of 1800 s
RepopulateTTL == 2

Kinds == {"sentiment", "tags", "summary"}
\* A string is the sequence of its characters. The content of an entry:
Contents == {<<"a">>}
\* The contents of successive edits of one entry, in SpecEdits.
EditContents == {<<"a">>, <<"b">>}
EntryIds == {"e1", "e2"}
\* The registered users and the titles of the requests.
Users == {"u1", "u2"}
Titles == {"t1", "t2"}
PassIds == {1, 2}

\* An optional value is a tuple of length 0 (null) or 1.
Null == <<>>
Some(v) == <<v>>
IsNull(o) == Len(o) = 0
Val(o) == o[1]

\* What the provider's completion can carry as message.content for the
\* summary prompt ("" is an empty or missing content).
SummaryTexts == {"", "s1"}
\* The summaries the provider gives in SpecEdits.
EditTexts == {"s1", "s2"}

\* The provider's answers to a JSON prompt: a thrown error, text that is not
\* JSON, and a JSON document.
JsonReplies == {"error", "malformed", "valid"}

\* The JSON documents of the provider: one within the limits that the
\* prompt asks for and one outside them.
EditReplies == {"valid", "outOfRange"}

\* ------------------------------------------------------------ state
VARIABLES
  issued,        \* the entry ids the database has given out
  listening,     \* startServer has reached app.listen and the process runs
  openai,        \* this.openai # null: OPENAI_API_KEY was set at construction
  redisPresent,  \* this.redis # null
  redis,         \* the volatile tier: key -> Null or Some([text, exp])
  aICache,       \* the durable table ai_cache: the set of its rows
  now,           \* the clock
  entries,       \* the diaryEntry table: id -> Null or Some(entry)
  passes,        \* the processAIAnalysis invocations in flight
  calls,         \* the three analysis calls of each invocation
  putAt,         \* history: when cacheResult was last called for a key
  last           \* history: the step just taken, when it is a cache
                 \* operation or the settling of a pass

vars == <<issued, listening, openai, redisPresent, redis, aICache, now, entries, passes, calls,
          putAt, last>>

\* ------------------------------------------------------- cache key
\* The characters of the three type literals.
KindText(kind) ==
  CASE kind = "sentiment" -> <<"s", "e", "n", "t", "i", "m", "e", "n", "t">>
    [] kind = "tags" -> <<"t", "a", "g", "s">>
    [] kind = "summary" -> <<"s", "u", "m", "m", "a", "r", "y">>

\* crypto.createHash('sha256').update(input).digest('hex'): the digest is
\* taken to be free of collisions, one digest per input.
Sha256Hex(input) == [sha256 |-> input]

\* The key with the white space of the content left out.
generateCacheKeyTrimmed(content, type) ==
  Sha256Hex(type \o <<":">> \o SelectSeq(content, LAMBDA ch : ch # " "))

\* sha256 of `${type}:${content}`
generateCacheKey(content, type) == Sha256Hex(type \o <<":">> \o content)

\* The contents whose keys SpecKey derives: every string of at most
\* MaxContentLen characters, with both cases, white space and the separator.
KeyChars == {"a", "A", " ", ":"}
KeyContents ==
  UNION {[1..n -> KeyChars] : n \in 0..MaxContentLen}

CacheKeys ==
  {generateCacheKey(c, KindText(k)) : c \in Contents \cup EditContents,
                                      k \in Kinds}

\* ------------------------------------------------------- JSON text
\* JSON.stringify of a string: the string between quotes, never the empty
\* text, so the text of "" is truthy although "" is not.
JSONstringify(v) == <<"\"", v, "\"">>
JSONparse(text) == text[2]
Truthy(s) == s # ""

\* ------------------------------------------------- the volatile tier
\* redis.get: the text stored under key while its TTL has not run out.
RedisGet(key) ==
  IF ~IsNull(redis[key]) /\ now < Val(redis[key]).exp
  THEN Some(Val(redis[key]).text)
  ELSE Null

\* redis.setex(key, ttl, text)
RedisSetex(store, key, ttl, text) ==
  [store EXCEPT ![key] = Some([text |-> text, exp |-> now + ttl])]

\* -------------------------------------------------- the durable tier
\* A row of ai_cache (AICacheModel).
Row(key, type, result, expiresAt) ==
  [key |-> key, type |-> type, result |-> result, expiresAt |-> expiresAt]

\* The rows of a table stored under key.
RowsOf(table, key) == {r \in table : r.key = key}

\* findFirst with the expiresAt filter left out.
FindFirstAnyAge(key, type) ==
  LET found == {r \in aICache : r.key = key /\ r.type = type}
  IN  IF found # {} THEN Some(CHOOSE r \in found : TRUE) ELSE Null

\* aICache.findFirst({ where: { key, type, expiresAt: { gt: new Date() } } })
FindFirst(key, type) ==
  LET found == {r \in aICache :
                  r.key = key /\ r.type = type /\ r.expiresAt > now}
  IN  IF found # {} THEN Some(CHOOSE r \in found : TRUE) ELSE Null

\* create: { key, result, type, expiresAt } whatever the table holds.
UpsertAlwaysCreate(table, key, type, result, expiresAt) ==
  table \cup {Row(key, type, result, expiresAt)}

\* aICache.upsert({ where: { key }, update: { result, type, expiresAt },
\* create: { key, result, type, expiresAt } }): the row selected by the
\* unique key is updated in place, and a row is created when there is none.
Upsert(table, key, type, result, expiresAt) ==
  IF RowsOf(table, key) # {}
  THEN {IF r.key = key
        THEN [r EXCEPT !.result = result, !.type = type,
                       !.expiresAt = expiresAt]
        ELSE r : r \in table}
  ELSE table \cup {Row(key, type, result, expiresAt)}

\* aICache.deleteMany({ where: { expiresAt: { lt: new Date() } } })
DeleteExpired(table) == {r \in table : ~(r.expiresAt < now)}

\* The outcomes of the store operations of one call: TRUE where the
\* operation throws. The first throw ends the call in its catch block, so
\* at most one operation of a call throws, and without a Redis client there
\* is no Redis operation.
GetFaults == {f \in [rget : BOOLEAN, find : BOOLEAN, rset : BOOLEAN] :
                /\ ~redisPresent => (~f.rget /\ ~f.rset)
                /\ f.rget => (~f.find /\ ~f.rset)
                /\ f.find => ~f.rset}
PutFaults == {f \in [rset : BOOLEAN, upsert : BOOLEAN] :
                /\ ~redisPresent => ~f.rset
                /\ f.rset => ~f.upsert}

\* getCachedResult(key, type) under the faults f: the value returned, the
\* tier that served it and the volatile tier afterwards. Every throw inside
\* the try block ends in the catch, which returns null.
getCachedResult(key, type, f) ==
  LET miss == [ret |-> Null, src |-> "none", redis |-> redis]
      row == FindFirst(key, type)
  IN  IF redisPresent /\ f.rget THEN miss
      ELSE IF redisPresent /\ ~IsNull(RedisGet(key))
                /\ Len(Val(RedisGet(key))) > 0
      THEN [ret |-> Some(JSONparse(Val(RedisGet(key)))), src |-> "redis",
            redis |-> redis]
      ELSE IF f.find THEN miss
      ELSE IF IsNull(row) THEN miss
      ELSE IF redisPresent /\ f.rset THEN miss
      ELSE [ret |-> Some(Val(row).result), src |-> "db",
            redis |-> IF redisPresent
                      THEN RedisSetex(redis, key, RepopulateTTL,
                                      JSONstringify(Val(row).result))
                      ELSE redis]

\* cacheResult(key, type, result) under the faults f: both tiers afterwards.
\* A throw of redis.setex ends in the catch before the upsert is issued.
cacheResult(key, type, result, f) ==
  LET expiresAt == now + TTL
      written == IF redisPresent
                 THEN RedisSetex(redis, key, TTL, JSONstringify(result))
                 ELSE redis
  IN  IF redisPresent /\ f.rset THEN [redis |-> redis, aICache |-> aICache]
      ELSE IF f.upsert THEN [redis |-> written, aICache |-> aICache]
      ELSE [redis |-> written,
            aICache |-> Upsert(aICache, key, type, result, expiresAt)]

\* What the database does to a cleanup: it answers, the table ai_cache does
\* not exist (the probe throws "... does not exist"), or a statement throws
\* another error.
SweepFaults == {"none", "noTable", "dbError"}

\* cleanupExpiredCache() with a catch block that logs the missing table and
\* throws every other error again.
cleanupExpiredCacheRethrowing(fault) ==
  [table |-> IF fault = "none" THEN DeleteExpired(aICache) ELSE aICache,
   raised |-> fault = "dbError"]

\* cleanupExpiredCache(): the table afterwards and whether the call threw.
\* A throw of the existence probe or of deleteMany is caught and logged in
\* either branch of the catch block.
cleanupExpiredCache(fault) ==
  [table |-> IF fault = "none" THEN DeleteExpired(aICache) ELSE aICache,
   raised |-> FALSE]

\* ----------------------------------------------------- analysis calls
\* The defaults returned while the provider is not configured.
DefaultSentiment ==
  [score |-> 0, label |-> "neutral", confidence |-> 0, emotions |-> <<>>]
DefaultTags == <<>>

\* JSON.parse(response.choices[0]?.message?.content || '{}') and
\* JSON.parse(... || '[]'): the value parsed from the reply "valid".
ParsedReply(kind) ==
  IF kind = "sentiment"
  THEN [score |-> 1, label |-> "positive", confidence |-> 1,
        emotions |-> <<"joy">>]
  ELSE <<"park", "happy">>

\* A reply that is JSON but keeps none of the limits the prompt asks for.
OutOfRangeReply(kind) ==
  IF kind = "sentiment"
  THEN [score |-> 5, label |-> "happy", confidence |-> 2,
        emotions |-> <<"a", "b", "c", "d", "e", "f">>]
  ELSE <<"t1", "t2", "t3", "t4", "t5", "t6", "t7", "t8", "t9">>

\* The value that JSON.parse gives for a reply that is JSON: it is used as
\* it is parsed.
ParsedJson(kind, reply) ==
  IF reply = "outOfRange" THEN OutOfRangeReply(kind) ELSE ParsedReply(kind)

\* One analysis call: where it stands (pc), whether it consulted the cache,
\* what the provider gave it (got) and what it returned (ret).
IdleCall == [pc |-> "idle", lookedUp |-> FALSE, got |-> Null, ret |-> Null]

\* analyzeSentiment / generateTags up to their first await.
StartJsonCall(kind) ==
  IF ~openai
  THEN [IdleCall EXCEPT !.pc = "ok",
          !.ret = Some(IF kind = "sentiment" THEN DefaultSentiment
                       ELSE DefaultTags)]
  ELSE [IdleCall EXCEPT !.pc = "provider"]

\* generateSummary up to its first await, the cache lookup.
StartSummaryCall == [IdleCall EXCEPT !.pc = "lookup"]

StartCalls ==
  [k \in Kinds |-> IF k = "summary" THEN StartSummaryCall
                   ELSE StartJsonCall(k)]

FreePass == [st |-> "free", entryId |-> "-", content |-> <<>>]
IdleCalls == [k \in Kinds |-> IdleCall]
NoOp == [op |-> "none"]

Settled(c) == c.pc \in {"idle", "ok", "failed"}

\* Promise.all rejects as soon as one of the three calls has thrown: the
\* catch block of processAIAnalysis logs, and the pass is over without an
\* update; this is handled before any other callback runs. The calls still
\* in flight run on and what they return is read by nobody; only
\* generateSummary has an effect left, its write to the cache. st is the
\* state of the pass after a step and cs its calls after it: they are kept
\* as far as a later step can still read them.
AfterStep(p, st, cs) ==
  IF st = "running" THEN [pass |-> passes[p], calls |-> cs]
  ELSE IF Settled(cs["summary"])
  THEN [pass |-> FreePass, calls |-> IdleCalls]
  ELSE [pass |-> [st |-> "rejected", entryId |-> "-",
                  content |-> passes[p].content],
        calls |-> [k \in Kinds |-> IF k = "summary" THEN cs[k]
                                   ELSE IdleCall]]

\* The promise of processAIAnalysis if nothing caught what its body throws.
PassPromiseUncaught(settled, threw) ==
  IF ~settled THEN "pending" ELSE IF threw THEN "rejected" ELSE "resolved"

\* The promise that processAIAnalysis returned, once its body has settled
\* or not: the body is one try block whose catch logs, so what is thrown
\* in it never rejects the promise.
PassPromise(settled, threw) ==
  IF ~settled THEN "pending" ELSE "resolved"

\* The promise of the pass p after a step in which a call of it has become
\* c: the pass settles when a call fails while Promise.all is awaited.
PromiseAfter(p, c) ==
  [promise |-> PassPromise(passes[p].st = "running" /\ c.pc = "failed",
                           c.pc = "failed")]

\* The pass p and its calls after call kind has become c.
CallStep(p, kind, c) ==
  LET st == IF c.pc = "failed" /\ passes[p].st = "running" THEN "rejected"
            ELSE passes[p].st
      a == AfterStep(p, st, [calls[p] EXCEPT ![kind] = c])
  IN  /\ passes' = [passes EXCEPT ![p] = a.pass]
      /\ calls' = [calls EXCEPT ![p] = a.calls]

\* diaryEntry.create({ data: { title, content, userId } }): the analysis
\* fields of the new row are absent.
NewEntry(userId, title, content) ==
  [userId |-> userId, title |-> title, content |-> content,
   aiSentiment |-> Null, aiTags |-> Null, aiSummary |-> Null]

Init ==
  /\ issued = {}
  /\ listening = TRUE
  /\ openai \in BOOLEAN
  /\ redisPresent \in BOOLEAN
  /\ redis = [k \in CacheKeys |-> Null]
  /\ aICache = {}
  /\ now = 0
  /\ entries = [e \in EntryIds |-> Null]
  /\ passes = [p \in PassIds |-> FreePass]
  /\ calls = [p \in PassIds |-> IdleCalls]
  /\ putAt = [k \in CacheKeys |-> -1]
  /\ last = NoOp

\* processAIAnalysis(entryId, content) up to its await of Promise.all, in
\* the first free slot of the model.
StartPass(p, e, content) ==
  /\ passes[p].st = "free"
  /\ \A q \in PassIds : q < p => passes[q].st # "free"
  /\ passes' = [passes EXCEPT ![p] =
                  [st |-> "running", entryId |-> e, content |-> content]]
  /\ calls' = [calls EXCEPT ![p] = StartCalls]

\* res.status(status).json(createResponse(true, entry, ...)): the response
\* of a handler about the entry e.
Respond(status, e) == [op |-> "respond", status |-> status, entryId |-> e]

\* The ids in the order in which the database gives them out: an id is
\* given out once.
EntrySeq == <<"e1", "e2">>
NextEntryId(e) ==
  /\ Cardinality(issued) < Len(EntrySeq)
  /\ e = EntrySeq[Cardinality(issued) + 1]

\* The request that a response answers.
Request(method, userId) == [method |-> method, user |-> userId]

\* diaryEntry.findFirst({ where: { id } }), whoever owns the entry.
FindById(id, userId) == entries[id]

\* diaryEntry.findFirst({ where: { id, userId } })
FindOwned(id, userId) ==
  IF ~IsNull(entries[id]) /\ Val(entries[id]).userId = userId
  THEN entries[id]
  ELSE Null

\* diaryEntry.findMany({ where: { userId } }): the ids of the entries found.
FindMany(userId) ==
  {e \in EntryIds : ~IsNull(entries[e]) /\ Val(entries[e]).userId = userId}

\* POST /entries with the response held back until processAIAnalysis has
\* settled.
CreateEntryAwaiting(u, e, title, content, p) ==
  /\ listening
  /\ NextEntryId(e)
  /\ issued' = issued \cup {e}
  /\ entries' = [entries EXCEPT ![e] = Some(NewEntry(u, title, content))]
  /\ StartPass(p, e, content)
  /\ last' = NoOp
  /\ UNCHANGED <<listening, openai, redisPresent, redis, aICache, now, putAt>>

\* POST /entries by the user u: the entry is created under an id of its
\* own, its enrichment is started in the background and the response is
\* sent, in this order and without an await in between.
CreateEntry(u, e, title, content, p) ==
  /\ listening
  /\ NextEntryId(e)
  /\ issued' = issued \cup {e}
  /\ entries' = [entries EXCEPT ![e] = Some(NewEntry(u, title, content))]
  /\ StartPass(p, e, content)
  /\ last' = Respond(201, e) @@ Request("POST", u)
  /\ UNCHANGED <<listening, openai, redisPresent, redis, aICache, now, putAt>>

\* The data of diaryEntry.update in PUT /entries/:id: the fields that the
\* request carries (title and content are optional).
UpdateData(entry, title, content) ==
  [entry EXCEPT !.title = IF IsNull(title) THEN @ ELSE Val(title),
                !.content = IF IsNull(content) THEN @ ELSE Val(content)]

\* PUT /entries/:id that starts processAIAnalysis whatever the request
\* carries, on the content the entry has after the update.
UpdateEntryAlwaysAnalysing(u, e, title, content, p) ==
  /\ listening
  /\ ~IsNull(FindOwned(e, u))
  /\ entries' = [entries EXCEPT ![e] =
                   Some(UpdateData(Val(entries[e]), title, content))]
  /\ StartPass(p, e, Val(entries'[e]).content)
  /\ last' = Respond(200, e) @@ Request("PUT", u)
                @@ [carried |-> ~IsNull(content)]
  /\ UNCHANGED <<issued, listening, openai, redisPresent, redis, aICache, now,
                 putAt>>

\* PUT /entries/:id by the user u on an entry of theirs: the fields carried
\* are replaced; with a content the enrichment is started again in the
\* background; the response is sent.
UpdateEntry(u, e, title, content, p) ==
  /\ listening
  /\ ~IsNull(FindOwned(e, u))
  /\ entries' = [entries EXCEPT ![e] =
                   Some(UpdateData(Val(entries[e]), title, content))]
  /\ IF ~IsNull(content)
     THEN StartPass(p, e, Val(content))
     ELSE /\ \A q \in PassIds : p <= q
          /\ UNCHANGED <<passes, calls>>
  /\ last' = Respond(200, e) @@ Request("PUT", u)
                @@ [carried |-> ~IsNull(content)]
  /\ UNCHANGED <<issued, listening, openai, redisPresent, redis, aICache, now,
                 putAt>>

\* DELETE /entries/:id by the user u on an entry of theirs.
DeleteEntry(u, e) ==
  /\ listening
  /\ ~IsNull(FindOwned(e, u))
  /\ entries' = [entries EXCEPT ![e] = Null]
  /\ last' = Respond(200, e) @@ Request("DELETE", u)
  /\ UNCHANGED <<issued, listening, openai, redisPresent, redis, aICache, now,
                 passes, calls, putAt>>

\* GET /entries/:id by the user u on an entry of theirs.
GetEntry(u, e) ==
  /\ listening
  /\ ~IsNull(FindOwned(e, u))
  /\ last' = Respond(200, e) @@ Request("GET", u)
                @@ [data |-> {e}]
  /\ UNCHANGED <<issued, listening, openai, redisPresent, redis, aICache, now,
                 entries, passes, calls, putAt>>

\* GET /entries by the user u: the entries found for the user.
ListEntries(u) ==
  /\ listening
  /\ last' = Respond(200, "-") @@ Request("LIST", u)
                @@ [data |-> FindMany(u)]
  /\ UNCHANGED <<issued, listening, openai, redisPresent, redis, aICache, now,
                 entries, passes, calls, putAt>>

\* GET, PUT or DELETE /entries/:id by the user u where findFirst finds no
\* entry with this id and this owner: AppError('Entry not found', 404).
EntryNotFound(method, u, e) ==
  /\ listening
  /\ IsNull(FindOwned(e, u))
  /\ last' = Respond(404, e) @@ Request(method, u)
  /\ UNCHANGED <<issued, listening, openai, redisPresent, redis, aICache, now,
                 entries, passes, calls, putAt>>

\* A statement inside the try block of getCachedResult(key, type) throws
\* under f: the Redis read, the durable read reached after a Redis miss, or
\* the Redis write reached after a durable hit.
LookupThrows(key, type, f) ==
  LET rhit == redisPresent /\ ~IsNull(RedisGet(key))
  IN  \/ redisPresent /\ f.rget
      \/ ~rhit /\ f.find
      \/ ~rhit /\ ~IsNull(FindFirst(key, type)) /\ redisPresent /\ f.rset

\* The faults of a getCachedResult(key, type) are told apart only where the
\* statement that throws is reached.
Reached(key, type, f) ==
  f \in GetFaults /\ ((f.rget \/ f.find \/ f.rset) => LookupThrows(key, type, f))

\* The record of a getCachedResult(key, type) that returned r under f.
GetRecord(key, type, f, r, outcome) ==
  [op |-> "get", key |-> key, type |-> type, ret |-> r.ret, src |-> r.src,
   f |-> f, live |-> FindFirst(key, type),
   rhit |-> redisPresent /\ ~IsNull(RedisGet(key)),
   threw |-> LookupThrows(key, type, f), outcome |-> outcome]

\* The record of a cacheResult(key, type, result) under f.
PutRecord(key, type, result, f, outcome) ==
  [op |-> "put", key |-> key, type |-> type, result |-> result, f |-> f,
   existed |-> RowsOf(aICache, key) # {}, outcome |-> outcome]

\* generateSummary with a getCachedResult that has no catch block: an error
\* of the lookup ends the call in the catch block of generateSummary.
SummaryLookupRaising(p, f) ==
  LET c == calls[p]["summary"]
      key == generateCacheKey(passes[p].content, KindText("summary"))
      r == getCachedResult(key, "summary", f)
      hit == ~IsNull(r.ret) /\ Truthy(Val(r.ret))
      c2 == IF LookupThrows(key, "summary", f) \/ (~hit /\ ~openai)
            THEN [c EXCEPT !.pc = "failed", !.lookedUp = TRUE]
            ELSE IF hit
            THEN [c EXCEPT !.pc = "ok", !.lookedUp = TRUE, !.ret = r.ret]
            ELSE [c EXCEPT !.pc = "provider", !.lookedUp = TRUE]
  IN  /\ listening
      /\ c.pc = "lookup"
      /\ Reached(key, "summary", f)
      /\ redis' = r.redis
      /\ CallStep(p, "summary", c2)
      /\ last' = [op |-> "get", key |-> key, type |-> "summary",
                  ret |-> r.ret, src |-> r.src, f |-> f,
                  live |-> FindFirst(key, "summary"),
                  rhit |-> redisPresent /\ ~IsNull(RedisGet(key)),
                  threw |-> LookupThrows(key, "summary", f),
                  outcome |-> c2.pc, entryId |-> passes[p].entryId]
                  @@ PromiseAfter(p, c2)
      /\ UNCHANGED <<issued, listening, openai, redisPresent, aICache, now, entries,
                     putAt>>

\* generateSummary with a guard for the missing provider that stores the
\* default summary '' like a result of the provider.
SummaryLookupDefaulting(p, f) ==
  LET c == calls[p]["summary"]
      key == generateCacheKey(passes[p].content, KindText("summary"))
      r == getCachedResult(key, "summary", f)
      hit == ~IsNull(r.ret) /\ Truthy(Val(r.ret))
      c2 == IF hit THEN [c EXCEPT !.pc = "ok", !.lookedUp = TRUE, !.ret = r.ret]
            ELSE IF ~openai
            THEN [c EXCEPT !.pc = "store", !.lookedUp = TRUE, !.got = Some("")]
            ELSE [c EXCEPT !.pc = "provider", !.lookedUp = TRUE]
  IN  /\ listening
      /\ c.pc = "lookup"
      /\ Reached(key, "summary", f)
      /\ redis' = r.redis
      /\ CallStep(p, "summary", c2)
      /\ last' = GetRecord(key, "summary", f, r, c2.pc)
                    @@ [entryId |-> passes[p].entryId]
                    @@ PromiseAfter(p, c2)
      /\ UNCHANGED <<issued, listening, openai, redisPresent, aICache, now,
                     entries, putAt>>

\* generateSummary resumes from getCachedResult: a truthy cached value is
\* returned; otherwise the provider is called, and this.openai.chat throws a
\* TypeError inside the try block when this.openai is null.
SummaryLookup(p, f) ==
  LET c == calls[p]["summary"]
      key == generateCacheKey(passes[p].content, KindText("summary"))
      r == getCachedResult(key, "summary", f)
      hit == ~IsNull(r.ret) /\ Truthy(Val(r.ret))
      c2 == IF hit THEN [c EXCEPT !.pc = "ok", !.lookedUp = TRUE, !.ret = r.ret]
            ELSE IF ~openai THEN [c EXCEPT !.pc = "failed", !.lookedUp = TRUE]
            ELSE [c EXCEPT !.pc = "provider", !.lookedUp = TRUE]
  IN  /\ listening
      /\ c.pc = "lookup"
      /\ Reached(key, "summary", f)
      /\ redis' = r.redis
      /\ CallStep(p, "summary", c2)
      /\ last' = GetRecord(key, "summary", f, r, c2.pc)
                    @@ [entryId |-> passes[p].entryId]
                    @@ PromiseAfter(p, c2)
      /\ UNCHANGED <<issued, listening, openai, redisPresent, aICache, now, entries, putAt>>

\* analyzeSentiment / generateTags where text that is not JSON is read as
\* the empty document and returned.
ProviderReplyJsonLenient(p, kind, reply) ==
  LET c == calls[p][kind]
      c2 == IF reply = "malformed"
            THEN [c EXCEPT !.pc = "ok", !.ret = Some(ParsedReply(kind))]
            ELSE [c EXCEPT !.pc = "failed"]
  IN  /\ listening
      /\ kind \in {"sentiment", "tags"}
      /\ c.pc = "provider"
      /\ CallStep(p, kind, c2)
      /\ last' = [op |-> "reply", kind |-> kind, reply |-> reply,
                  storeThrew |-> reply = "valid", outcome |-> c2.pc,
                  entryId |-> passes[p].entryId]
      /\ UNCHANGED <<issued, listening, openai, redisPresent, redis, aICache, now,
                     entries, putAt>>

\* analyzeSentiment / generateTags with cacheKey declared and the store left
\* out: the parsed reply is returned as it is.
ProviderReplyJsonReturning(p, kind, reply) ==
  LET c == calls[p][kind]
      parsed == reply \notin {"error", "malformed"}
      c2 == IF parsed
            THEN [c EXCEPT !.pc = "ok", !.ret = Some(ParsedJson(kind, reply))]
            ELSE [c EXCEPT !.pc = "failed"]
  IN  /\ listening
      /\ kind \in {"sentiment", "tags"}
      /\ c.pc = "provider"
      /\ CallStep(p, kind, c2)
      /\ last' = [op |-> "reply", kind |-> kind, reply |-> reply,
                  storeThrew |-> FALSE, outcome |-> c2.pc,
                  entryId |-> passes[p].entryId]
                  @@ PromiseAfter(p, c2)
      /\ UNCHANGED <<issued, listening, openai, redisPresent, redis, aICache,
                     now, entries, putAt>>

\* analyzeSentiment / generateTags resume from the provider: a provider
\* error and a JSON.parse error are caught and rethrown as an AppError; a
\* parsed result is then to be stored under cacheKey, an identifier these
\* two methods never declare, so evaluating it throws a ReferenceError
\* inside the same try block and the call fails as well.
ProviderReplyJson(p, kind, reply) ==
  LET c == calls[p][kind]
      parsed == reply \notin {"error", "malformed"}
  IN  /\ listening
      /\ kind \in {"sentiment", "tags"}
      /\ c.pc = "provider"
      /\ CallStep(p, kind,
                  [c EXCEPT !.pc = "failed",
                            !.got = IF parsed THEN Some(ParsedJson(kind, reply))
                                    ELSE Null])
      /\ last' = [op |-> "reply", kind |-> kind, reply |-> reply,
                  storeThrew |-> parsed, outcome |-> "failed",
                  entryId |-> passes[p].entryId]
                  @@ PromiseAfter(p, [c EXCEPT !.pc = "failed"])
      /\ UNCHANGED <<issued, listening, openai, redisPresent, redis, aICache, now, entries,
                     putAt>>

\* generateSummary resumes from the provider: reply is Null when the call
\* threw, else the message content ('' when it is missing).
ProviderReplySummary(p, reply) ==
  LET c == calls[p]["summary"]
      c2 == IF IsNull(reply) THEN [c EXCEPT !.pc = "failed"]
            ELSE [c EXCEPT !.pc = "store", !.got = reply]
  IN  /\ listening
      /\ c.pc = "provider"
      /\ CallStep(p, "summary", c2)
      /\ last' = [op |-> "reply", kind |-> "summary",
                  reply |-> IF IsNull(reply) THEN "error" ELSE "valid",
                  storeThrew |-> FALSE, outcome |-> c2.pc,
                  entryId |-> passes[p].entryId]
                  @@ PromiseAfter(p, c2)
      /\ UNCHANGED <<issued, listening, openai, redisPresent, redis, aICache, now, entries,
                     putAt>>

\* generateSummary stores the result and returns it.
SummaryStore(p, f) ==
  LET c == calls[p]["summary"]
      key == generateCacheKey(passes[p].content, KindText("summary"))
      w == cacheResult(key, "summary", Val(c.got), f)
  IN  /\ listening
      /\ c.pc = "store"
      /\ f \in PutFaults
      /\ redis' = w.redis
      /\ aICache' = w.aICache
      /\ CallStep(p, "summary", [c EXCEPT !.pc = "ok", !.ret = c.got])
      /\ putAt' = [putAt EXCEPT ![key] = now]
      /\ last' = PutRecord(key, "summary", Val(c.got), f, "ok")
                    @@ [entryId |-> passes[p].entryId]
                    @@ PromiseAfter(p, [c EXCEPT !.pc = "ok"])
      /\ UNCHANGED <<issued, listening, openai, redisPresent, now, entries>>

\* ------------------------------------------------- the enrichment pass
\* An update without its where clause: every entry gets the three fields.
UpdateAnalysisEverywhere(table, e, sentiment, tags, summary) ==
  [x \in EntryIds |->
     IF IsNull(table[x]) THEN Null
     ELSE Some([Val(table[x]) EXCEPT !.aiSentiment = sentiment,
                                     !.aiTags = tags,
                                     !.aiSummary = summary])]

\* An update whose data is the summary alone.
UpdateAnalysisSummaryOnly(table, e, sentiment, tags, summary) ==
  [table EXCEPT ![e] = Some([Val(table[e]) EXCEPT !.aiSummary = summary])]

\* diaryEntry.update({ where: { id }, data: { aiSentiment, aiTags,
\* aiSummary } }): the table afterwards.
UpdateAnalysis(table, e, sentiment, tags, summary) ==
  [table EXCEPT ![e] =
     Some([Val(table[e]) EXCEPT !.aiSentiment = sentiment,
                                !.aiTags = tags,
                                !.aiSummary = summary])]

\* processAIAnalysis with a check that the entry still has the content the
\* pass was started with: the update of a pass overtaken by an edit is
\* dropped.
PassPersistFresh(p, fails) ==
  LET e == passes[p].entryId
      threw == \/ fails
               \/ IsNull(entries[e])
               \/ Val(entries[e]).content # passes[p].content
      after == IF threw THEN entries
               ELSE UpdateAnalysis(entries, e, calls[p]["sentiment"].ret,
                                   calls[p]["tags"].ret,
                                   calls[p]["summary"].ret)
  IN  /\ listening
      /\ passes[p].st = "running"
      /\ \A k \in Kinds : calls[p][k].pc = "ok"
      /\ entries' = after
      /\ passes' = [passes EXCEPT ![p] = FreePass]
      /\ calls' = [calls EXCEPT ![p] = IdleCalls]
      /\ last' = [op |-> "settle",
                  outcome |-> IF threw THEN "updateFailed" ELSE "updated",
                  entryId |-> e, content |-> passes[p].content,
                  before |-> IF IsNull(entries[e]) THEN Null
                             ELSE Val(entries[e]).aiSummary,
                  promise |-> PassPromise(TRUE, threw)]
      /\ UNCHANGED <<issued, listening, openai, redisPresent, redis, aICache, now,
                     putAt>>

\* processAIAnalysis with an upsert in the place of the update: an entry
\* that is gone is created again with the three fields.
PassPersistUpserting(p, fails) ==
  LET e == passes[p].entryId
      row == IF IsNull(entries[e])
             THEN NewEntry("u1", "t1", passes[p].content)
             ELSE Val(entries[e])
      after == [entries EXCEPT ![e] =
                  Some([row EXCEPT !.aiSentiment = calls[p]["sentiment"].ret,
                                   !.aiTags = calls[p]["tags"].ret,
                                   !.aiSummary = calls[p]["summary"].ret])]
  IN  /\ listening
      /\ passes[p].st = "running"
      /\ \A k \in Kinds : calls[p][k].pc = "ok"
      /\ entries' = IF fails THEN entries ELSE after
      /\ passes' = [passes EXCEPT ![p] = FreePass]
      /\ calls' = [calls EXCEPT ![p] = IdleCalls]
      /\ last' = [op |-> "settle",
                  outcome |-> IF fails THEN "updateFailed" ELSE "updated",
                  entryId |-> e, content |-> passes[p].content,
                  before |-> IF IsNull(entries[e]) THEN Null
                             ELSE Val(entries[e]).aiSummary,
                  promise |-> PassPromise(TRUE, fails)]
      /\ UNCHANGED <<issued, listening, openai, redisPresent, redis, aICache,
                     now, putAt>>

\* Promise.all resolves once the three calls have returned: the three
\* fields are written in one update, which throws (and is caught) when the
\* entry is gone or the database fails.
PassPersist(p, fails) ==
  LET e == passes[p].entryId
      threw == fails \/ IsNull(entries[e])
  IN  /\ listening
      /\ passes[p].st = "running"
      /\ \A k \in Kinds : calls[p][k].pc = "ok"
      /\ entries' = IF threw THEN entries
                    ELSE UpdateAnalysis(entries, e,
                                        calls[p]["sentiment"].ret,
                                        calls[p]["tags"].ret,
                                        calls[p]["summary"].ret)
      /\ passes' = [passes EXCEPT ![p] = FreePass]
      /\ calls' = [calls EXCEPT ![p] = IdleCalls]
      /\ last' = [op |-> "settle",
                  outcome |-> IF threw THEN "updateFailed" ELSE "updated",
                  entryId |-> e, content |-> passes[p].content,
                  before |-> IF IsNull(entries[e]) THEN Null
                             ELSE Val(entries[e]).aiSummary,
                  promise |-> PassPromise(TRUE, threw)]
      /\ UNCHANGED <<issued, listening, openai, redisPresent, redis, aICache, now, putAt>>

\* ------------------------------------------------------ environment
\* The record of a cleanupExpiredCache() under fault that returned sweep.
SweepRecord(op, fault, sweep) ==
  [op |-> op, fault |-> fault, fails |-> fault # "none",
   raised |-> sweep.raised,
   expired |-> Cardinality({r \in aICache : r.expiresAt <= now}),
   deleted |-> Cardinality(aICache \ sweep.table),
   deletedLive |-> Cardinality({r \in aICache \ sweep.table :
                                  r.expiresAt > now})]

\* db.cleanupExpiredCache() of the hourly interval; the callback has a
\* try/catch of its own.
Cleanup(fault) ==
  /\ listening
  /\ aICache' = cleanupExpiredCache(fault).table
  /\ last' = SweepRecord("sweep", fault, cleanupExpiredCache(fault))
  /\ UNCHANGED <<issued, listening, openai, redisPresent, redis, now, entries, passes,
                 calls, putAt>>

\* new Date() / Date.now() advance.
Tick ==
  /\ now < MaxTime
  /\ now' = now + 1
  /\ last' = NoOp
  /\ UNCHANGED <<issued, listening, openai, redisPresent, redis, aICache, entries, passes,
                 calls, putAt>>

\* The volatile tier loses a key (eviction, a restart of Redis).
RedisEvict(key) ==
  /\ ~IsNull(redis[key])
  /\ redis' = [redis EXCEPT ![key] = Null]
  /\ last' = NoOp
  /\ UNCHANGED <<issued, listening, openai, redisPresent, aICache, now, entries, passes, calls,
                 putAt>>

\* The process is started again: the calls in flight are gone, both stores
\* and the entries stay. The AIService constructor reads OPENAI_API_KEY and
\* builds the Redis client; startServer awaits db.connect() and
\* db.cleanupExpiredCache() and then listens, and a throw of either ends in
\* its catch block, which exits the process.
Restart(key, client, connects, fault) ==
  LET sweep == cleanupExpiredCache(fault)
  IN  /\ ~connects => fault = "none"
      /\ openai' = key
      /\ redisPresent' = client
      /\ passes' = [p \in PassIds |-> FreePass]
      /\ calls' = [p \in PassIds |-> IdleCalls]
      /\ aICache' = IF connects THEN sweep.table ELSE aICache
      /\ listening' = (connects /\ ~sweep.raised)
      /\ last' = IF connects
                  THEN SweepRecord("restart", fault, sweep)
                         @@ [connected |-> TRUE]
                  ELSE [op |-> "restart", connected |-> FALSE]
      /\ UNCHANGED <<issued, redis, now, entries, putAt>>

\* A generateSummary call by any caller, seen from the cache: its lookup
\* (line 137) and, with the provider configured, its store (line 163).
CacheGet(content, f) ==
  LET key == generateCacheKey(content, KindText("summary"))
      r == getCachedResult(key, "summary", f)
  IN  /\ listening
      /\ Reached(key, "summary", f)
      /\ redis' = r.redis
      /\ last' = GetRecord(key, "summary", f, r, "-")
      /\ UNCHANGED <<issued, listening, openai, redisPresent, aICache, now, entries, passes,
                     calls, putAt>>

CachePut(content, result, f) ==
  LET key == generateCacheKey(content, KindText("summary"))
      w == cacheResult(key, "summary", result, f)
  IN  /\ listening
      /\ openai
      /\ f \in PutFaults
      /\ redis' = w.redis
      /\ aICache' = w.aICache
      /\ putAt' = [putAt EXCEPT ![key] = now]
      /\ last' = PutRecord(key, "summary", result, f, "-")
      /\ UNCHANGED <<issued, listening, openai, redisPresent, now, entries, passes, calls>>

\* The entries of one user and their enrichment: every start of the process succeeds
\* and finds the Redis configuration it had before, and OPENAI_API_KEY may
\* have been set or removed.
Next ==
  \/ \E e \in EntryIds, c \in Contents, p \in PassIds :
       CreateEntry("u1", e, "t1", c, p)
  \/ \E e \in EntryIds, c \in Contents, p \in PassIds :
       UpdateEntry("u1", e, Null, Some(c), p)
  \/ \E e \in EntryIds : DeleteEntry("u1", e)
  \/ \E p \in PassIds, f \in GetFaults : SummaryLookup(p, f)
  \/ \E p \in PassIds, k \in Kinds, r \in JsonReplies :
       ProviderReplyJson(p, k, r)
  \/ \E p \in PassIds, t \in SummaryTexts : ProviderReplySummary(p, Some(t))
  \/ \E p \in PassIds : ProviderReplySummary(p, Null)
  \/ \E p \in PassIds, f \in PutFaults : SummaryStore(p, f)
  \/ \E p \in PassIds, fails \in BOOLEAN : PassPersist(p, fails)
  \/ \E key \in BOOLEAN : Restart(key, redisPresent, TRUE, "none")

Spec == Init /\ [][Next]_vars

\* The two-tier cache under the clock, the cleanup and the loss of keys.
NextCache ==
  \/ \E c \in Contents, f \in GetFaults : CacheGet(c, f)
  \/ \E c \in Contents, t \in SummaryTexts, f \in PutFaults :
       CachePut(c, t, f)
  \/ \E fault \in SweepFaults : Cleanup(fault)
  \/ Tick
  \/ \E k \in CacheKeys : RedisEvict(k)
  \/ \E key \in BOOLEAN, client \in BOOLEAN, connects \in BOOLEAN,
          fault \in SweepFaults : Restart(key, client, connects, fault)

SpecCache == Init /\ [][NextCache]_vars

\* The faults of a call none of whose statements throws.
NoGetFault == [rget |-> FALSE, find |-> FALSE, rset |-> FALSE]
NoPutFault == [rset |-> FALSE, upsert |-> FALSE]

\* One entry edited again and again while its passes are in flight, the
\* stores and the database healthy.
NextEdits ==
  \/ \E c \in EditContents, p \in PassIds :
       CreateEntry("u1", "e1", "t1", c, p)
  \/ \E t \in {Null} \cup {Some(x) : x \in Titles},
        c \in {Null} \cup {Some(x) : x \in EditContents}, p \in PassIds :
       UpdateEntry("u1", "e1", t, c, p)
  \/ \E p \in PassIds : SummaryLookup(p, NoGetFault)
  \/ \E p \in PassIds, k \in Kinds, r \in EditReplies :
       ProviderReplyJson(p, k, r)
  \/ \E p \in PassIds, t \in EditTexts : ProviderReplySummary(p, Some(t))
  \/ \E p \in PassIds : SummaryStore(p, NoPutFault)
  \/ \E p \in PassIds : PassPersist(p, FALSE)
  \/ \E key \in BOOLEAN : Restart(key, redisPresent, TRUE, "none")

SpecEdits == Init /\ [][NextEdits]_vars

\* The same, where every awaited call to Redis and to the database returns
\* and the continuation behind it runs; a call to the provider may never
\* return.
SpecLive ==
  /\ Init /\ [][NextEdits]_vars
  /\ \A p \in PassIds :
       /\ WF_vars(SummaryLookup(p, NoGetFault))
       /\ WF_vars(SummaryStore(p, NoPutFault))
       /\ WF_vars(PassPersist(p, FALSE))

\* The methods of the handlers that look an entry up by its id.
IdMethods == {"GET", "PUT", "DELETE"}

\* Two users on the entries router, each authenticated as themselves. The
\* passes that their requests start fail: without a provider at the
\* summary call, with one at a provider error.
NextOwners ==
  \/ \E u \in Users, e \in EntryIds, p \in PassIds :
       CreateEntry(u, e, "t1", <<"a">>, p)
  \/ \E u \in Users, e \in EntryIds, p \in PassIds :
       \/ UpdateEntry(u, e, Some("t2"), Null, p)
       \/ UpdateEntry(u, e, Null, Some(<<"a">>), p)
  \/ \E u \in Users, e \in EntryIds : DeleteEntry(u, e)
  \/ \E u \in Users, e \in EntryIds : GetEntry(u, e)
  \/ \E u \in Users : ListEntries(u)
  \/ \E m \in IdMethods, u \in Users, e \in EntryIds : EntryNotFound(m, u, e)
  \/ \E p \in PassIds : SummaryLookup(p, NoGetFault)
  \/ \E p \in PassIds, k \in Kinds : ProviderReplyJson(p, k, "error")

SpecOwners == Init /\ [][NextOwners]_vars

\* ------------------------------------------------------ authentication
\* process.env.JWT_SECRET, and the keys a token can be signed with: the
\* secret of the server and a key of somebody else.
JwtSecret == "server"
SigningKeys == {JwtSecret, "forged"}

\* expiresIn '7d', in the time unit of the model (1800 s).
TokenLife == 336

\* The user ids a payload can name: the registered users and one id that
\* the user table does not have.
PayloadIds == Users \cup {"u3"}

\* The claims of a token: the user id and the expiry time.
TokenClaims == [id : PayloadIds, exp : {1, 3}]

\* The signature part of a token: what was signed and with which key.
Sign(claims, key) == [over |-> claims, key |-> key]

\* The tokens a request can carry: header.payload.signature, where the
\* signature may be over other claims than the payload (a tampered token)
\* or made with another key (a forged one).
Tokens ==
  {[payload |-> pl, sig |-> Sign(over, k)] :
     pl \in TokenClaims, over \in TokenClaims, k \in SigningKeys}

\* The Authorization header of a request: none, or Bearer and a token.
Headers == {Null} \cup {Some(t) : t \in Tokens}

\* jwt.sign(payload, secret, { expiresIn }).
generateToken(payload) ==
  LET claims == [id |-> payload.id, exp |-> now + TokenLife]
  IN  [payload |-> claims, sig |-> Sign(claims, JwtSecret)]

\* jwt.verify(token, secret): the payload when the signature is the
\* server's over this payload and the token has not expired; Null when it
\* throws.
verifyToken(token) ==
  IF token.sig = Sign(token.payload, JwtSecret) /\ now < token.payload.exp
  THEN Some(token.payload)
  ELSE Null

\* JSON.parse(Buffer.from(token.split('.')[1], 'base64').toString()): the
\* payload part as it is written in the token; the signature part is not
\* read.
DecodePayload(token) == token.payload

\* user.findUnique({ where: { id } }).
FindUser(id) == IF id \in Users THEN Some([id |-> id]) ELSE Null

\* The response to a request on a route that carried the header.
AuthResponse(route, header, status) ==
  [op |-> "auth", route |-> route, header |-> header, status |-> status]

\* A request to a route behind authenticateToken: without a token, with a
\* token that does not verify or whose user is not found, 401; otherwise
\* next() with req.user.
authenticateToken(header) ==
  LET decoded == IF IsNull(header) THEN Null ELSE verifyToken(Val(header))
      user == IF IsNull(decoded) THEN Null ELSE FindUser(Val(decoded).id)
  IN  /\ listening
      /\ last' = AuthResponse("protected", header,
                              IF IsNull(user) THEN 401 ELSE 200)
                    @@ [user |-> user]
      /\ UNCHANGED <<issued, openai, redisPresent, redis, aICache, now,
                     entries, passes, calls, putAt, listening>>

\* GET /api/auth/me: 401 without a token; the user named by the decoded
\* payload is looked up: 404 when not found, else the user's data.
Me(header) ==
  LET decoded == IF IsNull(header) THEN Null
                 ELSE Some(DecodePayload(Val(header)))
      user == IF IsNull(decoded) THEN Null ELSE FindUser(Val(decoded).id)
  IN  /\ listening
      /\ last' = AuthResponse("me", header,
                              IF IsNull(header) THEN 401
                              ELSE IF IsNull(user) THEN 404 ELSE 200)
                    @@ [user |-> user]
      /\ UNCHANGED <<issued, openai, redisPresent, redis, aICache, now,
                     entries, passes, calls, putAt, listening>>

\* POST /api/auth/refresh: 401 without a token or when the user named by
\* the decoded payload is not found; else a new token for that user.
Refresh(header) ==
  LET decoded == IF IsNull(header) THEN Null
                 ELSE Some(DecodePayload(Val(header)))
      user == IF IsNull(decoded) THEN Null ELSE FindUser(Val(decoded).id)
  IN  /\ listening
      /\ last' = AuthResponse("refresh", header,
                              IF IsNull(user) THEN 401 ELSE 200)
                    @@ [user |-> user,
                        token |-> IF IsNull(user) THEN Null
                                  ELSE Some(generateToken(Val(user)))]
      /\ UNCHANGED <<issued, openai, redisPresent, redis, aICache, now,
                     entries, passes, calls, putAt, listening>>

\* POST /api/auth/login of a registered user: 401 on a wrong password, else
\* a token for the user.
Login(u, passwordOk) ==
  /\ listening
  /\ last' = AuthResponse("login", Null, IF passwordOk THEN 200 ELSE 401)
                @@ [user |-> IF passwordOk THEN FindUser(u) ELSE Null,
                    token |-> IF passwordOk
                              THEN Some(generateToken([id |-> u]))
                              ELSE Null]
  /\ UNCHANGED <<issued, openai, redisPresent, redis, aICache, now,
                 entries, passes, calls, putAt, listening>>

\* Requests with any header on the routes that take a token, logins, and
\* the clock.
NextAuth ==
  \/ \E h \in Headers : authenticateToken(h)
  \/ \E h \in Headers : Me(h)
  \/ \E h \in Headers : Refresh(h)
  \/ \E u \in Users, ok \in BOOLEAN : Login(u, ok)
  \/ Tick

SpecAuth == Init /\ [][NextAuth]_vars

\* generateCacheKey applied to two (content, type) pairs.
DeriveKeys(c1, t1, c2, t2) ==
  /\ last.op # "key"
  /\ last' = [op |-> "key", c1 |-> c1, t1 |-> t1, c2 |-> c2, t2 |-> t2,
              key1 |-> generateCacheKey(c1, t1),
              again1 |-> generateCacheKey(c1, t1),
              key2 |-> generateCacheKey(c2, t2)]
  /\ UNCHANGED <<issued, listening, openai, redisPresent, redis, aICache, now, entries, passes,
                 calls, putAt>>

NextKey ==
  \E c1 \in KeyContents, c2 \in KeyContents, k1 \in Kinds, k2 \in Kinds :
    DeriveKeys(c1, KindText(k1), c2, KindText(k2))

SpecKey == Init /\ [][NextKey]_vars

\* ================================================================ claims
\* The analysis field of an entry that a kind fills, as an optional value.
AnalysisField(entry, kind) ==
  CASE kind = "sentiment" -> entry.aiSentiment
    [] kind = "tags" -> entry.aiTags
    [] kind = "summary" -> entry.aiSummary

\* The documented result of a kind while the provider is not configured.
DefaultResult(kind) ==
  CASE kind = "sentiment" -> DefaultSentiment
    [] kind = "tags" -> DefaultTags
    [] kind = "summary" -> ""

\* The pass p settles in this step (by a rejection or by its update), its
\* entry exists and the update, if one is issued, does not fail.
SettlesOnEntry(p) ==
  /\ passes[p].st = "running"
  /\ passes'[p].st # "running"
  /\ last'.op # "restart"
  /\ ~(last'.op = "settle" /\ last'.outcome = "updateFailed")
  /\ ~IsNull(entries'[passes[p].entryId])

\* C1: when an enrichment pass settles, every analysis kind whose call
\* succeeded is on the entry with its new result, even when another kind
\* failed.
C1_SucceededKindsPersisted ==
  [][\A p \in PassIds : SettlesOnEntry(p) =>
       \A k \in Kinds : calls[p][k].pc = "ok" =>
         AnalysisField(Val(entries'[passes[p].entryId]), k) = calls[p][k].ret
    ]_vars

\* C2: while the provider is not configured no analysis call raises and
\* every analysis call that has returned has returned the default of its
\* kind, whatever the cache holds.
C2_DefaultsWhenUnconfigured ==
  ~openai =>
    /\ \A p \in PassIds, k \in Kinds :
         calls[p][k].pc = "ok" => calls[p][k].ret = Some(DefaultResult(k))
    /\ last.op = "get" => last.outcome # "failed"

\* C3: a call of any of the three kinds is waiting for the provider only
\* after it has looked its key up in the cache, and a lookup that returned a
\* result ends the call with that result, without the provider.
C3_CacheConsultedFirst ==
  /\ \A p \in PassIds, k \in Kinds :
       calls[p][k].pc = "provider" => calls[p][k].lookedUp
  /\ (last.op = "get" /\ ~IsNull(last.ret)) => last.outcome \in {"ok", "-"}

\* C4: a get that directly follows a put of the same key and kind returns
\* the result written, the durable store being healthy in both, whatever
\* the volatile tier does.
C4_PutThenGet ==
  [][(/\ last.op = "put" /\ last'.op = "get"
      /\ last'.key = last.key /\ last'.type = last.type
      /\ ~last.f.upsert /\ ~last'.f.find)
     => last'.ret = Some(last.result)]_vars

\* C5: get never serves a durable row whose expiresAt is in the past, and
\* after a cleanup that ran its deleteMany no such row is left.
C5_ExpiredRowNotServed ==
  /\ (last.op = "get" /\ last.src = "db") =>
       /\ ~IsNull(last.live)
       /\ last.ret = Some(Val(last.live).result)
       /\ ~(Val(last.live).expiresAt < now)
  /\ (last.op = "sweep" /\ ~last.fails) =>
       \A r \in aICache : ~(r.expiresAt < now)

\* A cleanup has just deleted a row whose expiresAt was in the past.
C5_Witness ==
  last.op = "sweep" /\ ~last.fails /\ last.deleted > 0

\* C6: a get issued TTL or more after the last put of its key returns
\* absent.
C6_AbsentAfterTtl ==
  (/\ last.op = "get"
   /\ putAt[last.key] >= 0
   /\ now >= putAt[last.key] + TTL)
  => IsNull(last.ret)

\* C7: a get without a Redis client, or whose Redis read throws, returns
\* the result of the unexpired durable row of its key and kind when there
\* is one and the durable read does not throw.
C7_VolatileFailureIsMiss ==
  (/\ last.op = "get"
   /\ (~redisPresent \/ last.f.rget)
   /\ ~last.f.find
   /\ ~IsNull(last.live))
  => last.ret = Some(Val(last.live).result)

\* The get just taken missed the volatile tier and found an unexpired
\* durable row.
DurableHit ==
  /\ last.op = "get"
  /\ ~last.f.rget /\ ~last.rhit
  /\ ~last.f.find
  /\ ~IsNull(last.live)

\* C8: a get that hits the durable tier returns the durable result, also
\* when its write to the volatile tier throws, and when that write does not
\* throw the volatile tier holds the result for the fixed TTL.
C8_DurableHitRepopulates ==
  DurableHit =>
    /\ last.ret = Some(Val(last.live).result)
    /\ (redisPresent /\ ~last.f.rset) =>
         redis[last.key] =
           Some([text |-> JSONstringify(Val(last.live).result),
                 exp |-> now + RepopulateTTL])

\* C9: after a put whose upsert does not throw, the durable tier holds the
\* row of the key with the result and expiresAt = now + TTL, whatever the
\* write to the volatile tier did.
C9_DurableRowAfterPut ==
  (last.op = "put" /\ ~last.f.upsert) =>
    RowsOf(aICache, last.key) =
      {Row(last.key, last.type, last.result, now + TTL)}

\* C10: a call of any kind whose provider reply was a valid result returns
\* (does not raise) when storing that result in the cache fails.
C10_ResultReturnedWhenStoreFails ==
  /\ (last.op = "reply" /\ last.reply = "valid" /\ last.storeThrew) =>
       last.outcome # "failed"
  /\ (last.op = "put" /\ (last.f.rset \/ last.f.upsert)) =>
       last.outcome \in {"ok", "-"}

\* C11: with the provider configured, a generateSummary call whose cache
\* lookup threw in either tier goes on to the provider instead of failing,
\* and a call that got a provider result returns that result.
C11_LookupFailureFallsThrough ==
  /\ (last.op = "get" /\ last.threw /\ openai) => last.outcome = "provider"
  /\ \A p \in PassIds :
       LET c == calls[p]["summary"]
       IN  (c.pc = "ok" /\ ~IsNull(c.got)) => (c.lookedUp /\ c.ret = c.got)

\* The durable read of a lookup has just thrown and the call waits for the
\* provider.
C11_Witness ==
  /\ last.op = "get" /\ openai
  /\ last.threw /\ last.f.find
  /\ last.outcome = "provider"

\* The three analysis fields of an entry.
AnalysisFields(entry) == [k \in Kinds |-> AnalysisField(entry, k)]

\* C12: the step of a handler that starts an enrichment pass sends the
\* response for that entry in the same step, with a call of the pass still
\* in flight and the analysis fields of the entry as they were: no reply of
\* the provider is waited for, and the fields are written in a later step.
C12_ResponseBeforeEnrichment ==
  [][\A p \in PassIds :
       (passes[p].st = "free" /\ passes'[p].st = "running") =>
         LET e == passes'[p].entryId
         IN  /\ last'.op = "respond" /\ last'.entryId = e
             /\ \E k \in Kinds : ~Settled(calls'[p][k])
             /\ AnalysisFields(Val(entries'[e])) =
                  IF IsNull(entries[e]) THEN [k \in Kinds |-> Null]
                  ELSE AnalysisFields(Val(entries[e]))
    ]_vars

\* The response for an entry has been sent while the provider call for its
\* sentiment has not returned.
C12_Witness ==
  /\ last.op = "respond"
  /\ \E p \in PassIds :
       /\ passes[p].st = "running" /\ passes[p].entryId = last.entryId
       /\ calls[p]["sentiment"].pc = "provider"

\* C13: a pass one of whose calls has succeeded settles, and so writes the
\* field of that call, even when the provider never answers another call
\* of the pass.
C13_HungCallStallsOnlyItsField ==
  \A p \in PassIds, k \in Kinds :
    (passes[p].st = "running" /\ calls[p][k].pc = "ok")
      ~> (passes[p].st # "running")

\* C14: an analysis field of an entry changes only in the update of a pass
\* for that entry all of whose calls succeeded, and then to the result of
\* the call of its kind; a pass with a failed call leaves every field of
\* the entry as it was.
C14_FailedFieldKept ==
  [][\A e \in EntryIds, k \in Kinds :
       (/\ ~IsNull(entries[e]) /\ ~IsNull(entries'[e])
        /\ AnalysisField(Val(entries'[e]), k)
             # AnalysisField(Val(entries[e]), k))
       => \E p \in PassIds :
            /\ passes[p].st = "running" /\ passes[p].entryId = e
            /\ calls[p][k].pc = "ok"
            /\ AnalysisField(Val(entries'[e]), k) = calls[p][k].ret
    ]_vars

\* A call of a pass that re-enriches an entry has just failed, and the
\* entry still has the summary of an earlier pass.
C14_Witness ==
  /\ last.op \in {"reply", "get"} /\ last.outcome = "failed"
  /\ last.entryId \in EntryIds
  /\ ~IsNull(entries[last.entryId])
  /\ ~IsNull(Val(entries[last.entryId]).aiSummary)

\* C15: a sentiment or tags reply that is not JSON ends the call as a
\* provider error does: the call fails, neither cache tier is written and
\* no entry changes.
C15_MalformedReplyFails ==
  [][(last'.op = "reply" /\ last'.reply \in {"malformed", "error"}
        /\ last'.kind \in {"sentiment", "tags"})
     => /\ last'.outcome = "failed"
        /\ redis' = redis /\ aICache' = aICache
        /\ entries' = entries
        /\ \A p \in PassIds : calls'[p][last'.kind].pc # "ok"
                               \/ calls[p][last'.kind].pc = "ok"
    ]_vars

\* A reply that is not JSON has just ended the tags call of a pass for an
\* existing entry.
C15_Witness ==
  /\ last.op = "reply" /\ last.reply = "malformed" /\ last.kind = "tags"
  /\ last.outcome = "failed"
  /\ last.entryId \in EntryIds /\ ~IsNull(entries[last.entryId])

\* C20: a pass all of whose calls have returned writes its three results
\* on its entry when it settles, whether or not the entry has been edited
\* since the pass was started: the update that completes last decides each
\* field.
C20_LastUpdateWins ==
  [][\A p \in PassIds :
       (/\ passes[p].st = "running" /\ passes'[p].st = "free"
        /\ last'.op = "settle")
       => LET e == passes[p].entryId
          IN  /\ last'.outcome = "updated"
              /\ ~IsNull(entries'[e])
              /\ \A k \in Kinds :
                   AnalysisField(Val(entries'[e]), k) = calls[p][k].ret
    ]_vars

\* Both passes have settled, and the update that completed last, of a pass
\* started before the last edit, has replaced the summary that an earlier
\* update had written.
C20_Witness ==
  /\ last.op = "settle" /\ last.outcome = "updated"
  /\ ~IsNull(last.before)
  /\ last.before # Val(entries[last.entryId]).aiSummary
  /\ Val(entries[last.entryId]).content # last.content
  /\ \A p \in PassIds : passes[p].st = "free"

\* C16: the key of a (content, type) pair is the digest of the type, a
\* colon and the content as they are; deriving it again gives the same key,
\* and two pairs have the same hash input, and so the same key, only when
\* they have the same content and the same type.
C16_KeyOfPair ==
  last.op = "key" =>
    /\ last.key1 = Sha256Hex(last.t1 \o <<":">> \o last.c1)
    /\ last.again1 = last.key1
    /\ (last.key1 = last.key2) <=> (last.c1 = last.c2 /\ last.t1 = last.t2)
    /\ (last.key1.sha256 = last.key2.sha256)
         <=> (last.c1 = last.c2 /\ last.t1 = last.t2)

\* Two contents that differ only in a trailing blank, under the same type,
\* have got different keys.
C16_Witness ==
  /\ last.op = "key"
  /\ last.t1 = last.t2
  /\ last.c1 = <<"a">> /\ last.c2 = <<"a", " ">>
  /\ last.key1 # last.key2

\* C17: cleanupExpiredCache never throws, deletes nothing when no row has
\* expired, and a start of the process whose database connection succeeded
\* reaches listening whatever the cleanup met, a missing table included.
C17_SweepNeverRaises ==
  /\ (last.op = "sweep" \/ (last.op = "restart" /\ last.connected)) =>
       /\ ~last.raised
       /\ last.expired = 0 => last.deleted = 0
  /\ (last.op = "restart" /\ last.connected) => listening

\* The process has just started against a database without the table
\* ai_cache and listens.
C17_Witness ==
  /\ last.op = "restart" /\ last.connected
  /\ last.fault = "noTable"
  /\ listening

\* C18: a cleanup that ran its deleteMany leaves no row with
\* expiresAt <= now, a row expiring at the current time included, and has
\* deleted no row with expiresAt > now.
C18_SweepDeletesAtExpiry ==
  (last.op = "sweep" /\ ~last.fails) =>
    /\ \A r \in aICache : r.expiresAt > now
    /\ last.deletedLive = 0

\* C19: the durable table never holds two rows with the same key, and after
\* a put whose writes did not throw the one row of its key carries the
\* result and the expiry of that put, also while another put of the same
\* key is in flight.
C19_OneRowPerKey ==
  /\ \A k \in CacheKeys : Cardinality(RowsOf(aICache, k)) <= 1
  /\ (last.op = "put" /\ ~last.f.rset /\ ~last.f.upsert) =>
       RowsOf(aICache, last.key) =
         {Row(last.key, last.type, last.result, now + TTL)}

\* A put has just replaced the row of its key while the generateSummary
\* call of another pass is about to put the same key.
C19_Witness ==
  /\ last.op = "put" /\ last.existed
  /\ ~last.f.rset /\ ~last.f.upsert
  /\ \E p \in PassIds :
       /\ calls[p]["summary"].pc = "store"
       /\ generateCacheKey(passes[p].content, KindText("summary")) = last.key

\* The steps of the enrichment passes.
PassOps == {"get", "reply", "put", "settle"}

\* C21: a step of a pass changes no entry other than the entry of the pass:
\* the title, the content and the analysis fields of every other entry are
\* as they were.
C21_OtherEntriesUntouched ==
  [][last'.op \in PassOps =>
       \A e \in EntryIds : e # last'.entryId => entries'[e] = entries[e]
    ]_vars

\* The update of a pass has just been written while a pass for another,
\* existing entry is in flight.
C21_Witness ==
  /\ last.op = "settle" /\ last.outcome = "updated"
  /\ \E p \in PassIds :
       /\ passes[p].st = "running"
       /\ passes[p].entryId # last.entryId
       /\ ~IsNull(entries[passes[p].entryId])

\* C27: the promise of processAIAnalysis is never rejected, whichever call
\* of the pass, cache operation or entry update has failed.
C27_PassNeverRejects ==
  last.op \in PassOps => last.promise \in {"pending", "resolved"}

\* The update of a pass has just failed and its promise is resolved.
C27_Witness ==
  /\ last.op = "settle" /\ last.outcome = "updateFailed"
  /\ last.promise = "resolved"

\* C28: the update of a pass whose entry has been deleted fails and changes
\* nothing: the entry is not created again and no other entry is touched.
C28_DeletedEntryStaysDeleted ==
  [][(last'.op = "settle" /\ IsNull(entries[last'.entryId]))
     => (entries' = entries /\ last'.outcome = "updateFailed")]_vars

\* A pass has just settled on an entry deleted while it was in flight, and
\* another entry exists.
C28_Witness ==
  /\ last.op = "settle"
  /\ last.entryId \in issued /\ IsNull(entries[last.entryId])
  /\ \E e \in EntryIds : ~IsNull(entries[e])

\* C29: a generateSummary call whose lookup returned a cached result,
\* whatever its value, returns it without calling the provider.
C29_FalsyResultServed ==
  (last.op = "get" /\ ~IsNull(last.ret))
    => last.outcome \in {"ok", "-"}

\* The texts that the provider gives as a summary.
ProviderTexts == SummaryTexts \cup EditTexts

\* C30: nothing is put in the cache while the provider is not configured,
\* and both tiers hold results of the provider only, no default of a kind.
C30_DefaultsNeverCached ==
  /\ last.op = "put" => openai
  /\ \A r \in aICache : r.type = "summary" /\ r.result \in ProviderTexts
  /\ \A k \in CacheKeys :
       ~IsNull(redis[k]) => JSONparse(Val(redis[k]).text) \in ProviderTexts

\* With the provider configured again, a lookup has just run while an
\* entry carries the default sentiment of an unconfigured pass.
C30_Witness ==
  /\ last.op = "get" /\ openai
  /\ \E e \in EntryIds :
       /\ ~IsNull(entries[e])
       /\ Val(entries[e]).aiSentiment = Some(DefaultSentiment)

\* The three analysis fields of the entry in the row.
Analysis(row) ==
  IF IsNull(row) THEN Null ELSE Some(AnalysisFields(Val(row)))

\* C25: PUT /entries/:id starts a pass exactly when the request carries a
\* content: with one, one free slot becomes a pass on the entry with the
\* new content and no other pass changes; without one, no pass and no call
\* changes and the three analysis fields of the entry stay as they were.
C25_PassIffContentCarried ==
  [][(last'.op = "respond" /\ last'.method = "PUT" /\ last'.status = 200) =>
       LET e == last'.entryId
       IN  IF last'.carried
           THEN \E p \in PassIds :
                  /\ passes[p].st = "free"
                  /\ passes'[p] = [st |-> "running", entryId |-> e,
                                   content |-> Val(entries'[e]).content]
                  /\ \A q \in PassIds \ {p} :
                       passes'[q] = passes[q] /\ calls'[q] = calls[q]
           ELSE /\ passes' = passes
                /\ calls' = calls
                /\ Analysis(entries'[e]) = Analysis(entries[e])
    ]_vars

\* A title-only update has just been answered on an entry that carries
\* analysis results.
C25_Witness ==
  /\ last.op = "respond" /\ last.method = "PUT" /\ ~last.carried
  /\ ~IsNull(entries[last.entryId])
  /\ Val(entries[last.entryId]).title = "t2"
  /\ ~IsNull(Val(entries[last.entryId]).aiSummary)

\* C26: the analysis fields of an entry change only by the update of one
\* pass on that entry, which writes the three of them: after the step they
\* are the three results of that pass, and in every state an entry has
\* either none of the three fields or all of them.
C26_FieldsOfOnePass ==
  [][\A e \in EntryIds :
       ~IsNull(entries'[e]) =>
         /\ LET f == AnalysisFields(Val(entries'[e]))
            IN  \/ \A k \in Kinds : IsNull(f[k])
                \/ \A k \in Kinds : ~IsNull(f[k])
         /\ (~IsNull(entries[e])
             /\ Analysis(entries'[e]) # Analysis(entries[e]))
            => /\ last'.op = "settle" /\ last'.entryId = e
               /\ \E p \in PassIds :
                    /\ passes[p].st = "running" /\ passes[p].entryId = e
                    /\ passes'[p].st = "free"
                    /\ \A k \in Kinds :
                         AnalysisField(Val(entries'[e]), k) = calls[p][k].ret
    ]_vars

\* The update of a pass has just replaced analysis results on an entry
\* while a second pass on the same entry, started with another content, is
\* still in flight.
C26_Witness ==
  /\ last.op = "settle" /\ last.outcome = "updated"
  /\ ~IsNull(last.before)
  /\ \E p \in PassIds :
       /\ passes[p].st = "running"
       /\ passes[p].entryId = last.entryId
       /\ passes[p].content # last.content

\* The limits of a sentiment value: score in [-1, 1], one of the four
\* labels, confidence in [0, 1], at most 5 emotions (numbers are integers
\* in the model).
SentimentInRange(s) ==
  /\ s.score \in -1..1
  /\ s.label \in {"positive", "negative", "neutral", "mixed"}
  /\ s.confidence \in 0..1
  /\ Len(s.emotions) <= 5

\* C22: every sentiment stored on an entry is within the limits, whatever
\* the provider replied.
C22_StoredSentimentInRange ==
  \A e \in EntryIds :
    (~IsNull(entries[e]) /\ ~IsNull(Val(entries[e]).aiSentiment))
      => SentimentInRange(Val(Val(entries[e]).aiSentiment))

\* The provider has just answered the sentiment prompt of a pass with a
\* document outside the limits, for an entry that carries a sentiment.
C22_Witness ==
  /\ last.op = "reply" /\ last.kind = "sentiment"
  /\ last.reply = "outOfRange"
  /\ ~IsNull(entries[last.entryId])
  /\ ~IsNull(Val(entries[last.entryId]).aiSentiment)

\* C24: an entry keeps its one owner, and a request of another user does
\* not reach it: get, update and delete by id answer 404 and change no
\* entry and no pass, a get that succeeds is on an entry of the requester,
\* and list returns entries of the requester only.
C24_OnlyOwnerReaches ==
  [][/\ \A x \in EntryIds :
          (~IsNull(entries[x]) /\ ~IsNull(entries'[x]))
            => Val(entries'[x]).userId = Val(entries[x]).userId
     /\ last'.op = "respond" =>
          LET u == last'.user
              e == last'.entryId
          IN  /\ (/\ last'.method \in IdMethods
                  /\ ~IsNull(entries[e])
                  /\ Val(entries[e]).userId # u)
                 => /\ last'.status = 404
                    /\ entries' = entries
                    /\ passes' = passes
              /\ last'.method \in {"GET", "LIST"} =>
                   \/ last'.status = 404
                   \/ \A x \in last'.data :
                        /\ ~IsNull(entries[x])
                        /\ Val(entries[x]).userId = u
    ]_vars

\* A delete by a user on an existing entry of the other user has just been
\* answered 404 and the entry is there.
C24_Witness ==
  /\ last.op = "respond" /\ last.method = "DELETE" /\ last.status = 404
  /\ ~IsNull(entries[last.entryId])
  /\ Val(entries[last.entryId]).userId # last.user
  /\ \E x \in EntryIds :
       ~IsNull(entries[x]) /\ Val(entries[x]).userId = last.user

\* The routes that the documentation lists as taking a Bearer token.
TokenRoutes == {"protected", "me", "refresh"}

\* C23: a request on a route that takes a token succeeds only with a token
\* that verifies against the secret of the server: signed by the server
\* over the payload it carries, and not expired.
C23_OnlyVerifiedTokensSucceed ==
  (last.op = "auth" /\ last.route \in TokenRoutes /\ last.status = 200)
    => (~IsNull(last.header) /\ ~IsNull(verifyToken(Val(last.header))))

====
